---- MODULE Spec2Model ----
(***************************************************************************)
(* A model of the question-guide chat client: the streaming decoder and    *)
(* tool-call accumulator of OpenAIService.sendMessageStream, the tool      *)
(* executor executeMCPTool, and the conversation round driven by           *)
(* ChatInterface.handleSendMessage / handleToolExecutionComplete.          *)
(*                                                                         *)
(* Text is a sequence of symbols (one-character strings and a few tokens). *)
(* A JSON body is three symbols: an opening brace, a token naming the      *)
(* object, a closing brace; JSONParse fails on anything else, so a record  *)
(* cut in the middle does not parse.                                       *)
(***************************************************************************)
EXTENDS Integers, Sequences, FiniteSets, TLC

\* ------------------------------------------------------------------ bounds

\* records in one response stream of the decoder specifications
MaxRecords == 3
\* tool-call fragments in one response stream of the accumulator specification
MaxFragments == 4
\* user turns in one behaviour of the conversation specification
MaxRounds == 2
\* user turns in one behaviour of the specification of the association map
MaxTurns == 3
\* tool calls the model requests in one behaviour of that specification
MaxToolCalls == 2
\* threads the store can hold
MaxThreads == 2
\* times the user opens another thread in one behaviour
MaxSwitches == 1

\* initialize() calls in one behaviour of the session client specification
MaxInits == 2
\* requests other than the handshake's in one behaviour of that specification
MaxCalls == 1

\* ThreadManager calls in one behaviour of the specification of the thread
\* store
MaxStoreCalls == 5

\* sendMessageStream invocations in flight at once in the specification of
\* two invocations on one service
MaxInvocations == 2

\* progress notifications in one behaviour of the specification of the MCP
\* session client
MaxNotifications == 2

\* ---------------------------------------------------------- program constants

\* waitForToolResults: const maxAttempts = 50
maxAttempts == 50

\* ------------------------------------------------------------- text helpers

NL == "\n"
Whitespace == {" ", "\r", "\t"}

StartsWith(s, p) == Len(s) >= Len(p) /\ SubSeq(s, 1, Len(p)) = p

Slice(s, n) == SubSeq(s, n + 1, Len(s))

RECURSIVE TrimLeft(_)
TrimLeft(s) ==
  IF s # <<>> /\ Head(s) \in Whitespace THEN TrimLeft(Tail(s)) ELSE s

RECURSIVE TrimRight(_)
TrimRight(s) ==
  IF s # <<>> /\ s[Len(s)] \in Whitespace
  THEN TrimRight(SubSeq(s, 1, Len(s) - 1)) ELSE s

Trim(s) == TrimRight(TrimLeft(s))

\* String.prototype.split('\n'): the pieces between the separators; always
\* at least one piece.
RECURSIVE SplitFrom(_, _, _)
SplitFrom(s, cur, done) ==
  IF s = <<>> THEN Append(done, cur)
  ELSE IF Head(s) = NL THEN SplitFrom(Tail(s), <<>>, Append(done, cur))
  ELSE SplitFrom(Tail(s), Append(cur, Head(s)), done)

SplitLines(s) == SplitFrom(s, <<>>, <<>>)

RECURSIVE Concat(_)
Concat(ss) == IF ss = <<>> THEN <<>> ELSE Head(ss) \o Concat(Tail(ss))

\* JavaScript truthiness of the values the model uses
NULL == <<"null">>
UNDEFINED == <<"undefined">>
Truthy(x) == x # NULL /\ x # UNDEFINED /\ x # <<>>

\* ------------------------------------------------------------ wire format

DataPrefix == <<"d", "a", "t", "a", ":", " ">>
DoneMarker == <<"[", "DONE", "]">>

\* fragments of a tool call's arguments string; ArgsHead \o ArgsTail is a
\* JSON object, no other combination of the two is
ArgsHead == <<"{", "q">>
ArgsTail == <<"}">>
ArgsFull == ArgsHead \o ArgsTail

\* the arguments string of a call with another query
ArgsOther == <<"{", "r", "}">>

\* one entry of delta.tool_calls; a field the entry lacks is UNDEFINED, and
\* index is the number that (toolCallDelta.index || 0) yields
ToolDelta(i, id, name, args) == [index |-> i, id |-> id, name |-> name, arguments |-> args]

Choice(content, toolCalls, finish) ==
  [delta |-> [content |-> content, tool_calls |-> toolCalls], finish_reason |-> finish]

\* The JSON objects a record of the stream can carry, by the token that
\* names them, with the fields sendMessageStream reads:
\* {choices:[{delta:{content?, tool_calls?[...]}, finish_reason?}]}.
PayloadTokens == {"C", "T0", "A0", "T1", "A1", "W0", "W1", "X0", "X1", "F", "S", "M"}

Payloads ==
  [tok \in PayloadTokens |->
    CASE tok = "C"  -> <<Choice(<<"x">>, <<>>, UNDEFINED)>>
      [] tok = "T0" -> <<Choice(UNDEFINED, <<ToolDelta(0, <<"call_", "0">>, <<"web_search">>, ArgsHead)>>, UNDEFINED)>>
      [] tok = "A0" -> <<Choice(UNDEFINED, <<ToolDelta(0, UNDEFINED, UNDEFINED, ArgsTail)>>, UNDEFINED)>>
      [] tok = "T1" -> <<Choice(UNDEFINED, <<ToolDelta(1, <<"call_", "1">>, <<"web_search">>, ArgsHead)>>, UNDEFINED)>>
      [] tok = "A1" -> <<Choice(UNDEFINED, <<ToolDelta(1, UNDEFINED, UNDEFINED, ArgsTail)>>, UNDEFINED)>>
      [] tok = "W0" -> <<Choice(UNDEFINED, <<ToolDelta(0, <<"call_", "0">>, <<"web_search">>, ArgsFull)>>, UNDEFINED)>>
      [] tok = "W1" -> <<Choice(UNDEFINED, <<ToolDelta(1, <<"call_", "1">>, <<"web_search">>, ArgsOther)>>, UNDEFINED)>>
      [] tok = "X0" -> <<Choice(UNDEFINED, <<ToolDelta(0, <<"call_", "0">>, <<"bogus">>, ArgsFull)>>, UNDEFINED)>>
      [] tok = "X1" -> <<Choice(UNDEFINED, <<ToolDelta(1, <<"call_", "1">>, <<"bogus">>, ArgsFull)>>, UNDEFINED)>>
      [] tok = "F"  -> <<Choice(UNDEFINED, <<>>, <<"tool_calls">>)>>
      [] tok = "S"  -> <<Choice(UNDEFINED, <<>>, <<"stop">>)>>
      [] tok = "M"  -> <<Choice(<<"x">>, <<>>, UNDEFINED),
                         Choice(<<"y">>, <<ToolDelta(1, <<"call_", "1">>, <<"web_search">>, ArgsOther)>>, UNDEFINED)>>]

\* JSON.parse of a data payload: an object, or a SyntaxError
JSONParse(data) ==
  IF Len(data) = 3 /\ data[1] = "{" /\ data[3] = "}" /\ data[2] \in PayloadTokens
  THEN [ok |-> TRUE, choices |-> Payloads[data[2]]]
  ELSE [ok |-> FALSE, choices |-> <<>>]

\* what the server writes for one record: "data: <json>\n\n"
DataRecord(tok) == DataPrefix \o <<"{", tok, "}">> \o <<NL, NL>>
DoneRecord == DataPrefix \o DoneMarker \o <<NL, NL>>
\* a record whose JSON is cut short
BadRecord == DataPrefix \o <<"{", "C">> \o <<NL, NL>>
\* a record with no data
EmptyRecord == DataPrefix \o <<NL, NL>>

\* ------------------------------------------- sendMessageStream: the decoder

Digit(n) == <<"0", "1", "2", "3", "4", "5", "6", "7", "8", "9">>[n + 1]

NoToolCall == [id |-> <<>>, name |-> <<>>, arguments |-> <<>>]

ChunkEvent(text) == [type |-> "chunk", text |-> text, toolCall |-> NoToolCall]
ToolCallEvent(tc) == [type |-> "toolCall", text |-> <<>>, toolCall |-> tc]
CompleteEvent == [type |-> "complete", text |-> <<>>, toolCall |-> NoToolCall]
ErrorEvent == [type |-> "error", text |-> <<>>, toolCall |-> NoToolCall]

\* The state of one sendMessageStream invocation: the line buffer, the
\* accumulatingToolCalls map (a sequence: a Map iterates in insertion
\* order), the callbacks made so far, and whether the function has returned.
NewDecoder == [buffer |-> <<>>, acc |-> <<>>, log |-> <<>>, ended |-> FALSE]

AccHas(acc, i) == \E k \in 1..Len(acc) : acc[k].index = i

AccPos(acc, i) == CHOOSE k \in 1..Len(acc) : acc[k].index = i

\* accumulatingToolCalls.set(index, {id, function: {name: '', arguments: ''}})
AccInit(acc, td) ==
  IF AccHas(acc, td.index) THEN acc
  ELSE Append(acc, [index |-> td.index, id |-> td.id, name |-> <<>>, arguments |-> <<>>])

\* the body of the loop over delta.tool_calls
ApplyToolDeltaOverwrite(acc, td) ==
  LET a == AccInit(acc, td)
      k == AccPos(a, td.index)
  IN [a EXCEPT ![k].name = IF Truthy(td.name) THEN td.name ELSE @,
               ![k].arguments = IF Truthy(td.arguments) THEN td.arguments ELSE @]

ApplyToolDelta(acc, td) ==
  LET a == AccInit(acc, td)
      k == AccPos(a, td.index)
  IN [a EXCEPT ![k].name = IF Truthy(td.name) THEN td.name ELSE @,
               ![k].arguments = IF Truthy(td.arguments) THEN @ \o td.arguments ELSE @]

RECURSIVE ApplyToolDeltas(_, _)
ApplyToolDeltas(acc, tds) ==
  IF tds = <<>> THEN acc ELSE ApplyToolDeltas(ApplyToolDelta(acc, Head(tds)), Tail(tds))

\* completeToolCall of one accumulated entry
CompleteToolCall(entry, now) ==
  [id |-> IF Truthy(entry.id) THEN entry.id
          ELSE <<"tool-", Digit(now), "-", Digit(entry.index)>>,
   name |-> entry.name,
   arguments |-> entry.arguments]

\* the loop over accumulatingToolCalls.entries() on finish_reason
\* 'tool_calls': the onToolCall callbacks, in the map's order
RECURSIVE FinalizeEvents(_, _)
FinalizeEvents(acc, now) ==
  IF acc = <<>> THEN <<>>
  ELSE LET e == Head(acc)
       IN (IF Truthy(e.name) /\ Truthy(e.arguments)
           THEN <<ToolCallEvent(CompleteToolCall(e, now))>> ELSE <<>>)
          \o FinalizeEvents(Tail(acc), now)

\* the try block for one parsed data payload (choices[0] only)
ProcessParsed(d, choices, withTools, now) ==
  IF choices = <<>> THEN d
  ELSE
    LET delta == choices[1].delta
        finishReason == choices[1].finish_reason
        chunks == IF Truthy(delta.content) THEN <<ChunkEvent(delta.content)>> ELSE <<>>
        acc1 == ApplyToolDeltas(d.acc, delta.tool_calls)
        calls == IF finishReason = <<"tool_calls">> /\ withTools
                 THEN FinalizeEvents(acc1, now) ELSE <<>>
    IN [d EXCEPT !.acc = acc1, !.log = @ \o chunks \o calls]

ProcessLineBadAborts(d, line, withTools, now) ==
  IF d.ended \/ ~StartsWith(line, DataPrefix) THEN d
  ELSE
    LET data == Trim(Slice(line, Len(DataPrefix)))
        parsed == JSONParse(data)
    IN IF data = DoneMarker
       THEN [d EXCEPT !.log = Append(@, CompleteEvent), !.ended = TRUE]
       ELSE IF parsed.ok THEN ProcessParsed(d, parsed.choices, withTools, now)
       ELSE [d EXCEPT !.log = Append(@, ErrorEvent), !.ended = TRUE]

ProcessLineNoReturn(d, line, withTools, now) ==
  IF ~StartsWith(line, DataPrefix) THEN d
  ELSE
    LET data == Trim(Slice(line, Len(DataPrefix)))
        parsed == JSONParse(data)
    IN IF data = DoneMarker
       THEN [d EXCEPT !.log = Append(@, CompleteEvent)]
       ELSE IF parsed.ok THEN ProcessParsed(d, parsed.choices, withTools, now)
       ELSE d

\* one line of the for loop; after the return on [DONE] nothing runs
ProcessLine(d, line, withTools, now) ==
  IF d.ended \/ ~StartsWith(line, DataPrefix) THEN d
  ELSE
    LET data == Trim(Slice(line, Len(DataPrefix)))
        parsed == JSONParse(data)
    IN IF data = DoneMarker
       THEN [d EXCEPT !.log = Append(@, CompleteEvent), !.ended = TRUE]
       ELSE IF parsed.ok THEN ProcessParsed(d, parsed.choices, withTools, now)
       ELSE d

RECURSIVE ProcessLines(_, _, _, _)
ProcessLines(d, lines, withTools, now) ==
  IF lines = <<>> THEN d
  ELSE ProcessLines(ProcessLine(d, Head(lines), withTools, now), Tail(lines), withTools, now)

\* one turn of the while loop with done = false: buffer += chunk, split,
\* keep the last piece, process the others
ReadChunkNoBuffer(d, chunk, withTools, now) ==
  LET lines == SplitLines(chunk)
  IN ProcessLines([d EXCEPT !.buffer = <<>>], lines, withTools, now)

ReadChunk(d, chunk, withTools, now) ==
  LET lines == SplitLines(d.buffer \o chunk)
  IN ProcessLines([d EXCEPT !.buffer = lines[Len(lines)]],
                  SubSeq(lines, 1, Len(lines) - 1), withTools, now)

\* the turn with done = true: onComplete(); break
ReadDone(d) == [d EXCEPT !.log = Append(@, CompleteEvent), !.ended = TRUE]

\* the catch block: fetch, HTTP status, missing body or read() failed
ReadError(d) == [d EXCEPT !.log = Append(@, ErrorEvent), !.ended = TRUE]

\* ------------------------------------------------------------------ state

VARIABLES
  text,         \* decoder specifications: the whole response stream
  wire,         \* the part of it the reader has not returned yet
  sent,         \* the payload tokens of the records sent so far
  dec,          \* the state of the sendMessageStream invocation under test
  splitInside   \* history: some chunk ended inside a line

decVars == <<text, wire, sent, dec, splitInside>>

VARIABLES
  threads,                    \* ThreadManager: the persisted threads, by id
  currentThread,              \* useState: the working copy of the open thread
  isLoading,                  \* useState
  streamingContent,           \* useState
  streamingMessageId,         \* useState
  currentSessionToolResults,  \* useState
  messageToolResults,         \* useState: message id -> tool results
  rounds,                     \* one record per handleSendMessage call: its
                              \* closure, its locals and its service calls
  switches                    \* how often the user has opened another thread

appVars == <<threads, currentThread, isLoading, streamingContent,
             streamingMessageId, currentSessionToolResults,
             messageToolResults, rounds, switches>>

VARIABLES
  client,   \* the MCPClient object: config, session, sseConnection,
            \* progressCallbacks, tools, requestId
  net,      \* what the client has put on the network: the requests sent, the
            \* EventSource objects created, and history of the handshake
  init      \* the initialize() call in progress: where it stands

mcpVars == <<client, net, init>>

vars == <<decVars, appVars, mcpVars>>

\* ------------------------------------------------------ messages, threads

ThreadIds == 1..MaxThreads

Message(id, role, content, toolCalls, toolCallId) ==
  [id |-> id, role |-> role, content |-> content,
   toolCalls |-> toolCalls, toolCallId |-> toolCallId]

\* Date.now() when round r starts; the round's ids are built from it
Now(r) == 2 * r

UserText == <<"hello">>
SystemText == <<"You are a helpful assistant">>

\* ThreadManager.addMessageToThread: nothing happens when the thread is
\* not in the store
AddMessageToThread(ths, t, m) ==
  IF ths[t].exists THEN [ths EXCEPT ![t].messages = Append(@, m)] ELSE ths

RECURSIVE AddMessagesToThread(_, _, _)
AddMessagesToThread(ths, t, ms) ==
  IF ms = <<>> THEN ths
  ELSE AddMessagesToThread(AddMessageToThread(ths, t, Head(ms)), t, Tail(ms))

\* setCurrentThread(prev => prev ? {...prev, messages: [...prev.messages, m]} : null):
\* the update is applied to whatever thread is open when it runs
AppendToCurrentThread(ct, m) == [ct EXCEPT !.messages = Append(@, m)]

\* the application state the handlers read and write, as one value
World ==
  [threads |-> threads, currentThread |-> currentThread, isLoading |-> isLoading,
   streamingContent |-> streamingContent, streamingMessageId |-> streamingMessageId,
   currentSessionToolResults |-> currentSessionToolResults,
   messageToolResults |-> messageToolResults, rounds |-> rounds]

Commit(w) ==
  /\ threads' = w.threads
  /\ currentThread' = w.currentThread
  /\ isLoading' = w.isLoading
  /\ streamingContent' = w.streamingContent
  /\ streamingMessageId' = w.streamingMessageId
  /\ currentSessionToolResults' = w.currentSessionToolResults
  /\ messageToolResults' = w.messageToolResults
  /\ rounds' = w.rounds

\* setIsLoading(false); setStreamingContent(''); setStreamingMessageId(null)
ClearLoading(w) ==
  [w EXCEPT !.isLoading = FALSE, !.streamingContent = <<>>, !.streamingMessageId = NULL]

\* setMessageToolResults(prev => ({...prev, [id]: [...results]}))
SetMessageToolResults(mtr, id, results) ==
  [k \in DOMAIN mtr \cup {id} |-> IF k = id THEN results ELSE mtr[k]]

\* ----------------------------------------------------------- tool executor

KnownTools == {<<"web_search">>, <<"file_analyzer">>, <<"code_executor">>}

\* whether JSON.parse accepts an arguments string
JSONValidArgs(a) ==
  /\ Len(a) >= 2
  /\ a[1] = "{"
  /\ a[Len(a)] = "}"
  /\ \A k \in 2..(Len(a) - 1) : a[k] \notin {"{", "}"}

\* JSON.stringify of a tool's result
JSONStringify(x) == <<"json:">> \o x

\* what a tool returns for a call: it depends on the tool and its arguments
ToolResultOf(tc) == <<"result:">> \o tc.name \o tc.arguments

\* executeMCPTool fails before its first await: an unknown tool name or
\* arguments JSON.parse rejects
FailsAtOnce(tc) == tc.name \notin KnownTools \/ ~JSONValidArgs(tc.arguments)

ErrorAtOnce(tc) ==
  IF tc.name \notin KnownTools THEN <<"Unknown tool: ">> \o tc.name
  ELSE <<"SyntaxError">>

\* the entries of executedTools that onToolResult can match: same tool
\* name, result === null and error === null
Unmatched(executedTools, toolName) ==
  {k \in 1..Len(executedTools) :
     /\ executedTools[k].toolCall.name = toolName
     /\ executedTools[k].result = NULL
     /\ executedTools[k].error = NULL}

Min(S) == CHOOSE x \in S : \A y \in S : x <= y

\* handleToolResult: the completed status joins currentSessionToolResults.
\* round is history: the round whose tool produced the result.
HandleToolResult(w, r, toolName, result, error, toolCallId) ==
  [w EXCEPT !.currentSessionToolResults =
     Append(@, [toolName |-> toolName,
                status |-> IF Truthy(error) THEN "error" ELSE "success",
                result |-> result, error |-> error,
                toolCallId |-> toolCallId, round |-> r])]

\* the onToolResult callback handleSendMessage passes (find, then findIndex)
OnToolResult(w, r, toolName, result, error) ==
  LET et == w.rounds[r].executedTools
      hit == Unmatched(et, toolName)
      toolCallId == IF hit = {} THEN UNDEFINED ELSE et[Min(hit)].toolCall.id
      w1 == HandleToolResult(w, r, toolName, result, error, toolCallId)
  IN IF hit = {} THEN w1
     ELSE [w1 EXCEPT !.rounds[r].executedTools[Min(hit)].result = result,
                     !.rounds[r].executedTools[Min(hit)].error = error]

ExecuteMCPToolNoCatch(w, r, tc) ==
  LET n == Len(w.rounds[r].executedTools)
  IN [w EXCEPT !.rounds[r].execs =
        Append(@, [toolCall |-> tc,
                   state |-> IF FailsAtOnce(tc) THEN "settled" ELSE "running",
                   delivered |-> n])]

\* executeMCPTool up to its first await: either it has already reported an
\* error, or the tool is now running. delivered is history: the number of
\* tool calls the round had received when this execution began.
ExecuteMCPTool(w, r, tc) ==
  LET n == Len(w.rounds[r].executedTools)
  IN IF FailsAtOnce(tc)
     THEN OnToolResult([w EXCEPT !.rounds[r].execs =
                           Append(@, [toolCall |-> tc, state |-> "settled", delivered |-> n])],
                       r, tc.name, NULL, ErrorAtOnce(tc))
     ELSE [w EXCEPT !.rounds[r].execs =
              Append(@, [toolCall |-> tc, state |-> "running", delivered |-> n])]

\* ------------------------------------------- handleSendMessage: one round

AiMessageIdFixed(r) == <<"3">>

\* const aiMessageId = (Date.now() + 1).toString()
AiMessageId(r) == <<Digit(Now(r) + 1)>>

\* what a handleSendMessage call holds: the values its closure captured
\* from the render it ran in (thread, snapSession), its locals (messages,
\* fullResponse, hasToolCalls, executedTools), those of
\* handleToolExecutionComplete (attempts, finalResponse, request: the
\* message list of the latest completion request), the two
\* sendMessageStream invocations (first, final), the tools it started
\* (execs), the response the server is still to stream (script), the
\* error toasts it raised, whether the wait ended on the ceiling
\* (timedOut), where it stands (pc), and as history the completion
\* requests it has issued (requests).
NewRound(r, ct, session, messages, script) ==
  [thread |-> ct.id, snapSession |-> session, messages |-> messages,
   request |-> messages, aiMessageId |-> AiMessageId(r),
   pc |-> "first", fullResponse |-> <<>>, hasToolCalls |-> FALSE,
   executedTools |-> <<>>, execs |-> <<>>, attempts |-> 0,
   finalResponse |-> <<>>, first |-> NewDecoder, final |-> NewDecoder,
   script |-> script, toasts |-> 0, timedOut |-> FALSE, finalFinish |-> FALSE,
   firstFinish |-> FALSE, requests |-> 1]

\* the assistant message of a completed call and the association of the
\* tool results the closure sees (currentSessionToolResults as captured)
CommitAnswer(w, r, content) ==
  LET rd == w.rounds[r]
      aiMessage == Message(rd.aiMessageId, "assistant", content, <<>>, <<>>)
      w1 == [w EXCEPT !.threads = AddMessageToThread(@, rd.thread, aiMessage),
                      !.currentThread = AppendToCurrentThread(@, aiMessage)]
      w2 == IF Len(rd.snapSession) > 0
            THEN [w1 EXCEPT !.messageToolResults =
                              SetMessageToolResults(@, aiMessage.id, rd.snapSession),
                            !.currentSessionToolResults = <<>>]
            ELSE w1
  IN [ClearLoading(w2) EXCEPT !.rounds[r].pc = "done"]

\* handleToolExecutionComplete up to its first await
StartToolExecutionComplete(w, r) ==
  IF w.rounds[r].executedTools = <<>>
  THEN [ClearLoading(w) EXCEPT !.rounds[r].pc = "done"]
  ELSE [w EXCEPT !.rounds[r].pc = "waiting", !.rounds[r].attempts = 0]

\* the callbacks of the first sendMessageStream call
OnChunkFirst(w, r, chunk) ==
  LET full == w.rounds[r].fullResponse \o chunk
  IN [w EXCEPT !.rounds[r].fullResponse = full, !.streamingContent = full]

OnToolCall(w, r, tc) ==
  [w EXCEPT !.rounds[r].hasToolCalls = TRUE,
            !.rounds[r].executedTools =
               Append(@, [toolCall |-> tc, result |-> NULL, error |-> NULL])]

OnCompleteFirst(w, r) ==
  IF ~w.rounds[r].hasToolCalls
  THEN CommitAnswer(w, r, w.rounds[r].fullResponse)
  ELSE StartToolExecutionComplete(w, r)

OnErrorCommitsPartial(w, r) ==
  LET rd == w.rounds[r]
      partial == Message(rd.aiMessageId, "assistant", rd.fullResponse, <<>>, <<>>)
  IN [ClearLoading(w) EXCEPT !.threads = AddMessageToThread(@, rd.thread, partial),
                             !.rounds[r].toasts = @ + 1, !.rounds[r].pc = "failed"]

\* onError of either call: a toast, and the loading state is cleared
OnError(w, r) ==
  [ClearLoading(w) EXCEPT !.rounds[r].toasts = @ + 1, !.rounds[r].pc = "failed"]

\* the callbacks of the continuation call
OnChunkFinal(w, r, chunk) ==
  LET full == w.rounds[r].finalResponse \o chunk
  IN [w EXCEPT !.rounds[r].finalResponse = full, !.streamingContent = full]

OnCompleteFinalLikeFirst(w, r) ==
  IF w.rounds[r].finalFinish
  THEN StartToolExecutionComplete(w, r)
  ELSE CommitAnswer(w, r, w.rounds[r].finalResponse)

\* onComplete of the continuation call: the answer is committed; nothing
\* here starts another call
OnCompleteFinal(w, r) == CommitAnswer(w, r, w.rounds[r].finalResponse)

\* one callback of a sendMessageStream invocation reaches the round; the
\* service runs executeMCPTool right after onToolCall
ApplyEvent(w, r, e) ==
  LET first == w.rounds[r].pc = "first"
  IN CASE e.type = "chunk" ->
            IF first THEN OnChunkFirst(w, r, e.text) ELSE OnChunkFinal(w, r, e.text)
       [] e.type = "toolCall" ->
            ExecuteMCPTool(OnToolCall(w, r, e.toolCall), r, e.toolCall)
       [] e.type = "complete" ->
            IF first THEN OnCompleteFirst(w, r) ELSE OnCompleteFinal(w, r)
       [] OTHER -> OnError(w, r)

RECURSIVE ApplyEvents(_, _, _)
ApplyEvents(w, r, es) ==
  IF es = <<>> THEN w ELSE ApplyEvents(ApplyEvent(w, r, Head(es)), r, Tail(es))

\* the invocation a round is reading from
Streaming(rd) == rd.pc \in {"first", "final"}
Decoder(rd) == IF rd.pc = "first" THEN rd.first ELSE rd.final

\* the round after one step of its invocation's read loop took the decoder
\* from Decoder(rd) to d: the new callbacks are delivered in order
AfterRead(w, r, d) ==
  LET rd == w.rounds[r]
      old == Decoder(rd)
      \* the buffer and the accumulator go out of scope when the call returns
      kept == IF d.ended THEN [d EXCEPT !.buffer = <<>>, !.acc = <<>>] ELSE d
      w1 == IF rd.pc = "first"
            THEN [w EXCEPT !.rounds[r].first = kept]
            ELSE [w EXCEPT !.rounds[r].final = kept]
  IN ApplyEvents(w1, r, SubSeq(d.log, Len(old.log) + 1, Len(d.log)))

\* checkAllToolsComplete
CheckAllToolsCompleteAny(executedTools) ==
  \E k \in 1..Len(executedTools) :
    executedTools[k].result # NULL \/ executedTools[k].error # NULL

CheckAllToolsComplete(executedTools) ==
  \A k \in 1..Len(executedTools) :
    executedTools[k].result # NULL \/ executedTools[k].error # NULL

WaitOverNoCeiling(rd) == CheckAllToolsComplete(rd.executedTools)

\* waitForToolResults: the while loop is left
WaitOver(rd) == CheckAllToolsComplete(rd.executedTools) \/ rd.attempts >= maxAttempts

\* the content of the tool message of one executedTools entry
ToolMessageContent(tool) ==
  IF Truthy(tool.error)
  THEN <<"Error executing ">> \o tool.toolCall.name \o <<": ">> \o tool.error
  ELSE IF Truthy(tool.result) THEN JSONStringify(tool.result)
  ELSE <<"No result available">>

ToolMessagesSettledOnly(r, executedTools) ==
  LET done == SelectSeq(executedTools, LAMBDA t : t.result # NULL \/ t.error # NULL)
  IN [k \in 1..Len(done) |->
       Message(<<"tool-", Digit(Now(r) + 1), "-", Digit(k - 1)>>, "tool",
               ToolMessageContent(done[k]), <<>>, done[k].toolCall.id)]

ToolMessagesIdByIndex(r, executedTools) ==
  [k \in 1..Len(executedTools) |->
     Message(<<"tool-", Digit(Now(r) + 1), "-", Digit(k - 1)>>, "tool",
             ToolMessageContent(executedTools[k]), <<>>, <<"call_", Digit(k)>>)]

\* executedTools.map((tool, index) => ({id, role: 'tool', content, toolCallId}))
ToolMessages(r, executedTools) ==
  [k \in 1..Len(executedTools) |->
     Message(<<"tool-", Digit(Now(r) + 1), "-", Digit(k - 1)>>, "tool",
             ToolMessageContent(executedTools[k]), <<>>, executedTools[k].toolCall.id)]

\* handleToolExecutionComplete after the wait: the assistant tool-call
\* message and the tool messages go to the store, and the continuation
\* request is issued with messagesWithTools
ContinueAfterWait(w, r, script) ==
  LET rd == w.rounds[r]
      assistantMessage ==
        Message(rd.aiMessageId, "assistant", <<>>,
                [k \in 1..Len(rd.executedTools) |-> rd.executedTools[k].toolCall], <<>>)
      toolMessages == ToolMessages(r, rd.executedTools)
  IN [w EXCEPT !.threads = AddMessagesToThread(@, rd.thread, <<assistantMessage>> \o toolMessages),
               !.streamingContent = <<>>,
               !.streamingMessageId = rd.aiMessageId,
               !.rounds[r].request = rd.messages \o <<assistantMessage>> \o toolMessages,
               !.rounds[r].pc = "final",
               !.rounds[r].script = script,
               !.rounds[r].timedOut = ~CheckAllToolsComplete(rd.executedTools),
               !.rounds[r].attempts = 0,
               !.rounds[r].requests = @ + 1]

\* ------------------------------------------------------ visibleMessages

\* the texts '**MCP Tool Result' and '**OpenAI Request' that debug
\* messages carry after their pictograph
DebugMarkers == {"**MCP Tool Result", "**OpenAI Request"}

\* m.content.includes(marker) for one of the two debug markers
IsDebugMessage(m) == \E k \in 1..Len(m.content) : m.content[k] \in DebugMarkers

\* the filter of visibleMessages: system messages only if debug messages,
\* no assistant message with blank content and a non-empty toolCalls, no
\* tool message
Visible(m) ==
  IF m.role = "system" THEN IsDebugMessage(m)
  ELSE IF m.role = "assistant" /\ Trim(m.content) = <<>> /\ Len(m.toolCalls) > 0 THEN FALSE
  ELSE m.role # "tool"

\* ------------------------------------------------- MCPClient: the object

\* this.session = null
NoSession == [sessionId |-> NULL, protocolVersion |-> NULL]

\* this.sseConnection = null (an EventSource is named by its position in
\* net.channels)
NoChannel == 0

ApiKey == <<"secret">>

\* new MCPClient(config): the fields as declared
ProgressTokens == {"t1", "t2"}

\* the functions a caller may register as progress callbacks
Callbacks == {"f", "g"}

\* Map.get of a key the map does not hold
NoCallback == "none"

\* new Map(): no token has a callback
NoCallbacks == [t \in ProgressTokens |-> NoCallback]

NewClient(apiKey) ==
  [apiKey |-> apiKey, session |-> NoSession, sseConnection |-> NoChannel,
   progressCallbacks |-> NoCallbacks, tools |-> <<>>, requestId |-> 1]

\* nothing sent, no EventSource created; handshake is history: the headers
\* of the latest initialize response that established a session, until
\* disconnect(); lastOp is history: whether disconnect() ran last; arrived
\* is history: the tokens of the progress notifications in the order their
\* events fired; invoked is history: the callback calls made, in order
NewNet ==
  [requests |-> <<>>, channels |-> <<>>, handshake |-> NoSession,
   lastOp |-> "other", arrived |-> <<>>, invoked |-> <<>>]

\* no response of makeRequest('initialize') yet
NoResponse == [ok |-> FALSE, result |-> FALSE, sessionId |-> NULL, protocolVersion |-> NULL]

\* no initialize() call has been made; response is history: what the
\* latest initialize request came back with
NewInit ==
  [pc |-> "idle", error |-> "none", n |-> 0, channel |-> NoChannel,
   response |-> NoResponse]

McpIdle ==
  /\ client = NewClient(NULL)
  /\ net = NewNet
  /\ init = NewInit

\* ------------------------------------------- specification: conversation

AppInit ==
  /\ threads = [t \in ThreadIds |-> [exists |-> t = 1, messages |-> <<>>]]
  /\ currentThread = [id |-> 1, messages |-> <<>>]
  /\ isLoading = FALSE
  /\ streamingContent = <<>>
  /\ streamingMessageId = NULL
  /\ currentSessionToolResults = <<>>
  /\ messageToolResults = <<>>
  /\ rounds = <<>>
  /\ switches = 0

DecIdle ==
  /\ text = <<>>
  /\ wire = <<>>
  /\ sent = <<>>
  /\ dec = NewDecoder
  /\ splitInside = FALSE

Init == AppInit /\ DecIdle /\ McpIdle

\* <ChatInput disabled={isLoading}>
InputDisabled == isLoading

CanSubmitAlways == TRUE

\* ChatInput.handleSubmit: message.trim() && !disabled
CanSubmit == ~InputDisabled

\* The responses the completion service streams, as the payload tokens of
\* their records ("DONE" is the end marker): text only, one tool call, two
\* calls of the same tool, a call of an unknown tool, a call whose
\* arguments string is cut short. Every arguments string JSON.parse accepts
\* carries the fields its tool reads.
Scripts ==
  {<<"C", "DONE">>, <<"W0", "F", "DONE">>, <<"W0", "W1", "F">>, <<"W0", "X1", "F">>,
   <<"X0", "W1", "F">>, <<"W0", "T1", "F">>}

RecordOf(tok) == IF tok = "DONE" THEN DoneRecord ELSE DataRecord(tok)

ToolCount(script) == Len(SelectSeq(script, LAMBDA tok : tok \in {"W0", "W1", "X0", "X1", "T1"}))

RECURSIVE ExecsStarted(_)
ExecsStarted(rs) == IF rs = <<>> THEN 0 ELSE Len(Head(rs).execs) + ExecsStarted(Tail(rs))

\* handleSendMessage up to the await of fetch in sendMessageStream; the
\* response the server will stream is chosen here
SendMessage(maxRounds, scripts) ==
  /\ CanSubmit
  /\ Len(rounds) < maxRounds
  /\ \E script \in scripts :
     /\ ToolCount(script) + ExecsStarted(rounds) <= MaxToolCalls
     /\ LET r == Len(rounds) + 1
         ct == currentThread
         first == SelectSeq(ct.messages, LAMBDA m : m.role # "system") = <<>>
         systemMessage == Message(<<"system-", Digit(Now(r))>>, "system", SystemText, <<>>, <<>>)
         userMessage == Message(<<Digit(Now(r))>>, "user", UserText, <<>>, <<>>)
         added == (IF first THEN <<systemMessage>> ELSE <<>>) \o <<userMessage>>
         messages == ct.messages \o added
        IN /\ threads' = AddMessagesToThread(threads, ct.id, added)
           /\ currentThread' = [ct EXCEPT !.messages = @ \o added]
           /\ isLoading' = TRUE
           /\ streamingContent' = <<>>
           /\ streamingMessageId' = AiMessageId(r)
           /\ rounds' = Append(rounds, NewRound(r, ct, currentSessionToolResults,
                                                messages, script))
           /\ UNCHANGED <<currentSessionToolResults, messageToolResults, switches>>
  /\ UNCHANGED <<decVars, mcpVars>>

HandleSendMessage == SendMessage(MaxRounds, Scripts)

\* the record read carries finish_reason 'tool_calls' and the accumulator
\* holds a tool call with a name and arguments
ResolvesWithToolCalls(d, tok) ==
  /\ tok \in PayloadTokens
  /\ Payloads[tok][1].finish_reason = <<"tool_calls">>
  /\ FinalizeEvents(d.acc, 0) # <<>>

\* the record read carries finish_reason 'tool_calls'
FinishesWithToolCalls(tok) ==
  tok \in PayloadTokens /\ Payloads[tok][1].finish_reason = <<"tool_calls">>

\* reader.read() of a round's invocation returns the next record, whole.
\* finalFinish is history: the continuation call read a 'tool_calls'
\* finish reason with a tool call accumulated; firstFinish is history: the
\* first call read a 'tool_calls' finish reason.
StreamChunk(r) ==
  /\ Streaming(rounds[r])
  /\ rounds[r].script # <<>>
  /\ Commit(AfterRead([World EXCEPT !.rounds[r].script = Tail(@),
                                    !.rounds[r].firstFinish =
                                       @ \/ (/\ rounds[r].pc = "first"
                                             /\ FinishesWithToolCalls(Head(rounds[r].script))),
                                    !.rounds[r].finalFinish =
                                       @ \/ (/\ rounds[r].pc = "final"
                                             /\ ResolvesWithToolCalls(rounds[r].final,
                                                                      Head(rounds[r].script)))], r,
              ReadChunk(Decoder(rounds[r]), RecordOf(Head(rounds[r].script)),
                        rounds[r].pc = "first", Now(r) + 1)))
  /\ UNCHANGED <<switches, decVars, mcpVars>>

\* reader.read() returns done: the server has written its response
StreamDone(r) ==
  /\ Streaming(rounds[r])
  /\ rounds[r].script = <<>>
  /\ Commit(AfterRead(World, r, ReadDone(Decoder(rounds[r]))))
  /\ UNCHANGED <<switches, decVars, mcpVars>>

\* fetch, the HTTP status, the body or reader.read() fails
StreamError(r) ==
  /\ Streaming(rounds[r])
  /\ Commit(AfterRead(World, r, ReadError(Decoder(rounds[r]))))
  /\ UNCHANGED <<switches, decVars, mcpVars>>

\* a running tool settles: executeMCPTool calls onToolResult(name, result).
\* (With the arguments the server sends here, no tool rejects after its
\* first await.)
ToolSettle(r) ==
  \E k \in 1..Len(rounds[r].execs) :
    /\ rounds[r].execs[k].state = "running"
    /\ LET tc == rounds[r].execs[k].toolCall
           w1 == [World EXCEPT !.rounds[r].execs[k].state = "settled"]
       IN Commit(OnToolResult(w1, r, tc.name, ToolResultOf(tc), UNDEFINED))
    /\ UNCHANGED <<switches, decVars, mcpVars>>

\* waitForToolResults: the loop condition holds, the round sleeps 100 ms
WaitPoll(r) ==
  /\ rounds[r].pc = "waiting"
  /\ ~CheckAllToolsComplete(rounds[r].executedTools)
  /\ rounds[r].attempts < maxAttempts
  /\ rounds' = [rounds EXCEPT ![r].attempts = @ + 1]
  /\ UNCHANGED <<threads, currentThread, isLoading, streamingContent,
                 streamingMessageId, currentSessionToolResults, messageToolResults>>
  /\ UNCHANGED <<switches, decVars, mcpVars>>

\* waitForToolResults returns: every tool has a result or the attempts are
\* used up
Proceed(r, scripts) ==
  /\ rounds[r].pc = "waiting"
  /\ WaitOver(rounds[r])
  /\ \E script \in scripts : Commit(ContinueAfterWait(World, r, script))
  /\ UNCHANGED <<switches, decVars, mcpVars>>

WaitProceed(r) == Proceed(r, Scripts)

\* handleThreadSelect: the sidebar lists the threads of the store
HandleThreadSelect ==
  /\ switches < MaxSwitches
  /\ switches' = switches + 1
  /\ \E t \in ThreadIds :
       /\ threads[t].exists
       /\ currentThread' = [id |-> t, messages |-> threads[t].messages]
  /\ currentSessionToolResults' = <<>>
  /\ UNCHANGED <<threads, isLoading, streamingContent, streamingMessageId,
                 messageToolResults, rounds>>
  /\ UNCHANGED <<decVars, mcpVars>>

\* handleNewThread: ThreadManager.createThread, then the new thread is open
HandleNewThread ==
  /\ switches < MaxSwitches
  /\ switches' = switches + 1
  /\ \E t \in ThreadIds :
       /\ ~threads[t].exists
       /\ \A u \in ThreadIds : u < t => threads[u].exists
       /\ threads' = [threads EXCEPT ![t] = [exists |-> TRUE, messages |-> <<>>]]
       /\ currentThread' = [id |-> t, messages |-> <<>>]
  /\ currentSessionToolResults' = <<>>
  /\ UNCHANGED <<isLoading, streamingContent, streamingMessageId,
                 messageToolResults, rounds>>
  /\ UNCHANGED <<decVars, mcpVars>>

RoundStep(r) ==
  \/ StreamChunk(r)
  \/ StreamDone(r)
  \/ StreamError(r)
  \/ ToolSettle(r)
  \/ WaitPoll(r)
  \/ WaitProceed(r)

Next ==
  \/ HandleSendMessage
  \/ HandleThreadSelect
  \/ HandleNewThread
  \/ \E r \in 1..Len(rounds) : RoundStep(r)

Spec == Init /\ [][Next]_vars

\* One conversation round, with the navigation around it: the specification
\* of the progress of a round.
FirstSend == rounds = <<>> /\ HandleSendMessage

FairNext ==
  \/ FirstSend
  \/ HandleThreadSelect
  \/ HandleNewThread
  \/ \E r \in 1..Len(rounds) : RoundStep(r)

\* The event loop runs a timer that is due (setTimeout of the wait) and
\* delivers the end of a response body that has been read to its end.
Timers ==
  \E r \in 1..Len(rounds) : WaitPoll(r) \/ WaitProceed(r) \/ StreamDone(r)

\* StreamChunk(r) can be taken: its guard (its other conjuncts assign)
StreamChunkEnabled ==
  \E r \in 1..Len(rounds) : Streaming(rounds[r]) /\ rounds[r].script # <<>>

\* Weak fairness of the timers, and weak fairness of the stream step (a
\* record the server has to send arrives or the call fails) with ENABLED
\* written as the guard. Nothing makes a tool settle.
Fairness ==
  /\ WF_vars(Timers)
  /\ \/ []<>~StreamChunkEnabled
     \/ []<><<\E r \in 1..Len(rounds) : StreamChunk(r)>>_vars

FairSpec == Init /\ [][FairNext]_vars /\ Fairness

\* ------------------------------- specification: three turns in one thread

\* the responses to a first request: text only, two calls of a tool, or
\* a 'tool_calls' finish reason after a fragment that names no tool
TurnScripts == {<<"C", "DONE">>, <<"W0", "W1", "F">>, <<"A0", "F">>}

\* the responses to a continuation request: text only
AnswerScripts == {<<"C", "DONE">>}

TurnSend == SendMessage(MaxTurns, TurnScripts)

TurnProceed(r) == Proceed(r, AnswerScripts)

\* Turns in one thread with no transport failure; tools may settle at any
\* time, also after their round has ended.
TurnStep(r) ==
  \/ StreamChunk(r)
  \/ StreamDone(r)
  \/ ToolSettle(r)
  \/ WaitPoll(r)
  \/ TurnProceed(r)

TurnNext ==
  \/ TurnSend
  \/ \E r \in 1..Len(rounds) : TurnStep(r)

TurnSpec == Init /\ [][TurnNext]_vars

\* ---------------------------------- specification: chunking of one stream

\* the records a server writes in the chunking specification
ChunkMenu ==
  {DataRecord("C"), DataRecord("W0"), DataRecord("F"), DataRecord("M"), DoneRecord, BadRecord,
   EmptyRecord}

StreamTexts ==
  {Concat(rs) : rs \in UNION {[1..k -> ChunkMenu] : k \in 0..MaxRecords}}

ChunkInit ==
  /\ text \in StreamTexts
  /\ wire = text
  /\ sent = <<>>
  /\ dec = NewDecoder
  /\ splitInside = FALSE
  /\ AppInit
  /\ McpIdle

\* reader.read() returns the next k symbols of the stream
Feed ==
  /\ ~dec.ended
  /\ \E k \in 1..Len(wire) :
       /\ dec' = ReadChunk(dec, SubSeq(wire, 1, k), TRUE, 0)
       /\ wire' = Slice(wire, k)
       /\ splitInside' = (splitInside \/ dec'.buffer # <<>>)
  /\ UNCHANGED <<text, sent>>
  /\ UNCHANGED <<appVars, mcpVars>>

\* reader.read() returns done
FeedEnd ==
  /\ ~dec.ended
  /\ wire = <<>>
  /\ dec' = ReadDone(dec)
  /\ UNCHANGED <<text, wire, sent, splitInside>>
  /\ UNCHANGED <<appVars, mcpVars>>

\* fetch, the HTTP status, the body or reader.read() fails
FeedError ==
  /\ ~dec.ended
  /\ dec' = ReadError(dec)
  /\ UNCHANGED <<text, wire, sent, splitInside>>
  /\ UNCHANGED <<appVars, mcpVars>>

ChunkNext == Feed \/ FeedEnd \/ FeedError

ChunkSpec == ChunkInit /\ [][ChunkNext]_vars

\* ------------------------- specification: accumulation of tool-call records

AccMenu == {"T0", "A0", "T1", "A1", "F"}

AccInitState == DecIdle /\ AppInit /\ McpIdle

\* the server writes one more record and the reader returns it whole; the
\* server writes nothing after the record carrying the finish reason
AccSend ==
  /\ Len(sent) < MaxFragments
  /\ \A k \in 1..Len(sent) : sent[k] # "F"
  /\ \E tok \in AccMenu :
       /\ dec' = ReadChunk(dec, DataRecord(tok), TRUE, 0)
       /\ sent' = Append(sent, tok)
  /\ UNCHANGED <<text, wire, splitInside>>
  /\ UNCHANGED <<appVars, mcpVars>>

AccNext == AccSend

AccSpec == AccInitState /\ [][AccNext]_vars

\* ----------------------- specification: two invocations on one service

\* the chunks a read can return: whole records, and a record cut inside its
\* JSON as the piece before the cut and the piece after
PairMenu ==
  {DataRecord("T0"), DataRecord("A0"), DataRecord("F"),
   DataPrefix \o <<"{">>, <<"A0", "}", NL, NL>>}

\* no sendMessageStream call has been made: dec holds the locals of the
\* invocations made, sent the chunks each has read
PairInit ==
  /\ dec = <<>>
  /\ sent = <<>>
  /\ text = <<>>
  /\ wire = <<>>
  /\ splitInside = FALSE
  /\ AppInit
  /\ McpIdle

LocalsOfFirst(ds, i) == [ds[i] EXCEPT !.buffer = ds[1].buffer, !.acc = ds[1].acc]

\* buffer and accumulatingToolCalls are declared inside sendMessageStream:
\* an invocation reads and writes its own
Locals(ds, i) == ds[i]

\* sendMessageStream is called on the service while earlier invocations may
\* still be reading
PairInvoke ==
  /\ Len(dec) < MaxInvocations
  /\ dec' = Append(dec, NewDecoder)
  /\ sent' = Append(sent, <<>>)
  /\ UNCHANGED <<text, wire, splitInside>>
  /\ UNCHANGED <<appVars, mcpVars>>

\* reader.read() of one of the invocations returns a chunk
PairRead ==
  /\ \E i \in 1..Len(dec), chunk \in PairMenu :
       /\ Len(sent[i]) < MaxRecords
       /\ dec' = [dec EXCEPT ![i] = ReadChunk(Locals(dec, i), chunk, TRUE, 0)]
       /\ sent' = [sent EXCEPT ![i] = Append(@, chunk)]
  /\ UNCHANGED <<text, wire, splitInside>>
  /\ UNCHANGED <<appVars, mcpVars>>

PairNext == PairInvoke \/ PairRead

PairSpec == PairInit /\ [][PairNext]_vars

\* ------------------------------------ specification: the thread store

Sections == {"steam", "source2"}

\* the thread ids callers address; "9" is never the id of a stored thread
StoreIds == {"1", "2", "9"}

\* sectionThreads.findIndex(t => t.id === threadId): the first position
\* that holds the id, 0 for -1
FindIndexFirst(ts, threadId) == IF ts # <<>> THEN 1 ELSE 0

FindIndex(ts, threadId) ==
  IF \E k \in 1..Len(ts) : ts[k].id = threadId
  THEN Min({k \in 1..Len(ts) : ts[k].id = threadId}) ELSE 0

\* createThread: the new thread goes in front of the section's threads
CreateThread(all, section, id) ==
  [all EXCEPT ![section] = <<[id |-> id, name |-> "New Chat", messages |-> <<>>]>> \o @]

\* updateThread: {...thread, ...updates} at the position found, nothing if
\* the thread is not found (updatedAt is left out of the model)
UpdateThread(all, section, threadId, updates) ==
  LET k == FindIndex(all[section], threadId)
  IN IF k # 0
     THEN [all EXCEPT ![section][k] =
             [f \in DOMAIN @ |-> IF f \in DOMAIN updates THEN updates[f] ELSE @[f]]]
     ELSE all

\* deleteThread: filter(t => t.id !== threadId), saved in any case
DeleteThread(all, section, threadId) ==
  [all EXCEPT ![section] = SelectSeq(@, LAMBDA t : t.id # threadId)]

\* addMessageToThread on the parsed store: messages.push(message) at the
\* position found, nothing if the thread is not found
PushMessage(all, section, threadId, message) ==
  LET k == FindIndex(all[section], threadId)
  IN IF k # 0 THEN [all EXCEPT ![section][k].messages = Append(@, message)] ELSE all

\* the store as getAllThreads returns it when localStorage holds nothing:
\* threads here is the parsed value of 'chat-threads' (stored), with, as
\* history, the latest ThreadManager call and the number of calls (last)
StoreInit ==
  /\ threads = [stored |-> [s \in Sections |-> <<>>],
                last |-> [op |-> "none", section |-> "steam", threadId |-> "9", n |-> 0]]
  /\ currentThread = [id |-> 1, messages |-> <<>>]
  /\ isLoading = FALSE
  /\ streamingContent = <<>>
  /\ streamingMessageId = NULL
  /\ currentSessionToolResults = <<>>
  /\ messageToolResults = <<>>
  /\ rounds = <<>>
  /\ switches = 0
  /\ DecIdle
  /\ McpIdle

\* a ThreadManager call took the parsed store to stored
StoreCall(op, section, threadId, stored) ==
  /\ threads.last.n < MaxStoreCalls
  /\ threads' = [stored |-> stored,
                 last |-> [op |-> op, section |-> section, threadId |-> threadId,
                           n |-> threads.last.n + 1]]
  /\ UNCHANGED <<currentThread, isLoading, streamingContent, streamingMessageId,
                 currentSessionToolResults, messageToolResults, rounds, switches>>
  /\ UNCHANGED <<decVars, mcpVars>>

\* createThread with an id (Date.now()) the section does not hold yet
StoreCreate ==
  \E section \in Sections, id \in {"1", "2"} :
    /\ Len(threads.stored[section]) < MaxThreads
    /\ FindIndex(threads.stored[section], id) = 0
    /\ StoreCall("create", section, id, CreateThread(threads.stored, section, id))

StoreUpdate ==
  \E section \in Sections, threadId \in StoreIds,
     updates \in {[name |-> "renamed"], [messages |-> <<>>]} :
    StoreCall("update", section, threadId,
              UpdateThread(threads.stored, section, threadId, updates))

StoreDelete ==
  \E section \in Sections, threadId \in StoreIds :
    StoreCall("delete", section, threadId, DeleteThread(threads.stored, section, threadId))

StoreAdd ==
  \E section \in Sections, threadId \in StoreIds, message \in {"a", "b"} :
    StoreCall("add", section, threadId,
              PushMessage(threads.stored, section, threadId, message))

StoreNext == StoreCreate \/ StoreUpdate \/ StoreDelete \/ StoreAdd

StoreSpec == StoreInit /\ [][StoreNext]_vars

\* ------------------------------------- specification: the MCP session client

\* the requests of callTool, readResource, subscribeToResource,
\* unsubscribeFromResource and setLogLevel
CallMethods ==
  {"tools/call", "resources/read", "resources/subscribe",
   "resources/unsubscribe", "logging/setLevel"}

SessionHeadersNone(session) == NoSession

\* makeRequest: Mcp-Session-Id and MCP-Protocol-Version, set if this.session
SessionHeaders(session) == IF session # NoSession THEN session ELSE NoSession

\* makeRequest: Authorization, set if this.config.apiKey
Authorization(apiKey) ==
  IF Truthy(apiKey) THEN <<"Bearer ">> \o apiKey ELSE UNDEFINED

\* makeRequest up to its await of fetch: the request goes out with the
\* headers computed from the client's fields at that moment. expect is
\* history: the handshake in force when the request was sent.
SendRequest(c, n, method) ==
  LET h == SessionHeaders(c.session)
  IN [client |-> [c EXCEPT !.requestId = @ + 1],
      net |-> [n EXCEPT !.requests =
                 Append(@, [id |-> c.requestId, method |-> method,
                            sessionId |-> h.sessionId,
                            protocolVersion |-> h.protocolVersion,
                            authorization |-> Authorization(c.apiKey),
                            expect |-> n.handshake])]]

\* what makeRequest('initialize') can come back with for the k-th call: a
\* failure (network, HTTP status, JSON-RPC error), or a response with or
\* without a result and with or without each of the two session headers
\* (headers.get yields null for a header the response lacks)
InitResponses(k) ==
  LET sid == <<"session-", Digit(k)>>
      ver == <<"2024-11-05">>
  IN {[ok |-> FALSE, result |-> FALSE, sessionId |-> NULL, protocolVersion |-> NULL],
      [ok |-> TRUE, result |-> FALSE, sessionId |-> sid, protocolVersion |-> ver],
      [ok |-> TRUE, result |-> TRUE, sessionId |-> NULL, protocolVersion |-> ver],
      [ok |-> TRUE, result |-> TRUE, sessionId |-> sid, protocolVersion |-> NULL],
      [ok |-> TRUE, result |-> TRUE, sessionId |-> sid, protocolVersion |-> ver]}

HeadersMissingNever(resp) == FALSE

\* initialize: !sessionId || !protocolVersion
HeadersMissing(resp) == ~Truthy(resp.sessionId) \/ ~Truthy(resp.protocolVersion)

McpInit ==
  /\ \E key \in {NULL, ApiKey} : client = NewClient(key)
  /\ net = NewNet
  /\ init = NewInit
  /\ AppInit
  /\ DecIdle

\* initialize() is called: the initialize request goes out
Initialize ==
  /\ init.pc \in {"idle", "done", "failed"}
  /\ init.n < MaxInits
  /\ LET sent1 == SendRequest(client, net, "initialize")
     IN /\ client' = sent1.client
        /\ net' = [sent1.net EXCEPT !.lastOp = "other"]
  /\ init' = [pc |-> "request", error |-> "none", n |-> init.n + 1,
              channel |-> NoChannel, response |-> NoResponse]
  /\ UNCHANGED <<appVars, decVars>>

\* startSSEConnection up to its promise: a new EventSource replaces
\* this.sseConnection
StartSSEConnection(c, n) ==
  [client |-> [c EXCEPT !.sseConnection = Len(n.channels) + 1],
   net |-> [n EXCEPT !.channels = Append(@, "connecting")]]

\* makeRequest('initialize') settles and initialize() runs to its next await
InitializeResponse ==
  /\ init.pc = "request"
  /\ \E resp \in InitResponses(init.n) :
       IF ~resp.ok
       THEN /\ init' = [init EXCEPT !.pc = "failed", !.error = "request", !.response = resp]
            /\ net' = [net EXCEPT !.lastOp = "other"]
            /\ UNCHANGED client
       ELSE IF ~resp.result
       THEN /\ init' = [init EXCEPT !.pc = "failed", !.error = "no result", !.response = resp]
            /\ net' = [net EXCEPT !.lastOp = "other"]
            /\ UNCHANGED client
       ELSE IF HeadersMissing(resp)
       THEN /\ init' = [init EXCEPT !.pc = "failed", !.error = "headers", !.response = resp]
            /\ net' = [net EXCEPT !.lastOp = "other"]
            /\ UNCHANGED client
       ELSE LET session == [sessionId |-> resp.sessionId,
                            protocolVersion |-> resp.protocolVersion]
                started == StartSSEConnection([client EXCEPT !.session = session], net)
            IN /\ client' = started.client
               /\ net' = [started.net EXCEPT !.handshake = session, !.lastOp = "other"]
               /\ init' = [init EXCEPT !.pc = "sse", !.channel = started.client.sseConnection,
                                       !.response = resp]
  /\ UNCHANGED <<appVars, decVars>>

\* an EventSource opens; if initialize() awaits it, onopen clears the timer
\* and resolves, and discoverTools sends tools/list
ChannelOpen ==
  /\ \E c \in 1..Len(net.channels) :
       /\ net.channels[c] = "connecting"
       /\ IF init.pc = "sse" /\ init.channel = c
          THEN LET sent1 == SendRequest(client, [net EXCEPT !.channels[c] = "open"], "tools/list")
               IN /\ client' = sent1.client
                  /\ net' = [sent1.net EXCEPT !.lastOp = "other"]
                  /\ init' = [init EXCEPT !.pc = "tools"]
          ELSE /\ net' = [net EXCEPT !.channels[c] = "open"]
               /\ UNCHANGED <<client, init>>
  /\ UNCHANGED <<appVars, decVars>>

\* an EventSource fails for good: onerror only logs
ChannelError ==
  /\ \E c \in 1..Len(net.channels) :
       /\ net.channels[c] \in {"connecting", "open"}
       /\ net' = [net EXCEPT !.channels[c] = "failed"]
  /\ UNCHANGED <<client, init>>
  /\ UNCHANGED <<appVars, decVars>>

\* the 5 s timer of startSSEConnection fires before onopen: reject
SSETimeout ==
  /\ init.pc = "sse"
  /\ init' = [init EXCEPT !.pc = "failed", !.error = "sse"]
  /\ net' = [net EXCEPT !.lastOp = "other"]
  /\ UNCHANGED client
  /\ UNCHANGED <<appVars, decVars>>

\* makeRequest('tools/list') settles: this.tools is set and initialize()
\* returns this.session, or the failure propagates
ToolsResponse ==
  /\ init.pc = "tools"
  /\ \/ /\ client' = [client EXCEPT !.tools = <<"tool">>]
        /\ init' = [init EXCEPT !.pc = "done"]
     \/ /\ init' = [init EXCEPT !.pc = "failed", !.error = "tools"]
        /\ UNCHANGED client
  /\ net' = [net EXCEPT !.lastOp = "other"]
  /\ UNCHANGED <<appVars, decVars>>

\* callTool, readResource, subscribeToResource, unsubscribeFromResource or
\* setLogLevel is called: its request goes out (none of them tests the
\* session)
CallRequest ==
  /\ Cardinality({k \in 1..Len(net.requests) : net.requests[k].method \in CallMethods}) < MaxCalls
  /\ \E method \in CallMethods :
       LET sent1 == SendRequest(client, net, method)
       IN /\ client' = sent1.client
          /\ net' = [sent1.net EXCEPT !.lastOp = "other"]
  /\ UNCHANGED init
  /\ UNCHANGED <<appVars, decVars>>

\* registerProgressCallback: Map.set, which replaces a callback the token
\* already has
Register(callbacks) ==
  /\ \E token \in ProgressTokens, callback \in callbacks :
       /\ client.progressCallbacks[token] # callback
       /\ client' = [client EXCEPT !.progressCallbacks[token] = callback]
  /\ net' = [net EXCEPT !.lastOp = "other"]
  /\ UNCHANGED init
  /\ UNCHANGED <<appVars, decVars>>

RegisterProgressCallback == Register({"f"})

\* unregisterProgressCallback: Map.delete
UnregisterProgressCallback ==
  /\ \E token \in ProgressTokens :
       /\ client.progressCallbacks[token] # NoCallback
       /\ client' = [client EXCEPT !.progressCallbacks[token] = NoCallback]
  /\ net' = [net EXCEPT !.lastOp = "other"]
  /\ UNCHANGED init
  /\ UNCHANGED <<appVars, decVars>>

DispatchToAny(callbacks, invoked, progressToken) ==
  LET registered == {t \in ProgressTokens : callbacks[t] # NoCallback}
  IN IF registered # {}
     THEN LET t == CHOOSE x \in registered : TRUE
          IN Append(invoked, [progressToken |-> progressToken, callback |-> callbacks[t]])
     ELSE invoked

\* handleNotification for notifications/progress: the callback the map
\* holds for the token is called, if there is one
Dispatch(callbacks, invoked, progressToken) ==
  LET callback == callbacks[progressToken]
  IN IF callback # NoCallback
     THEN Append(invoked, [progressToken |-> progressToken, callback |-> callback])
     ELSE invoked

\* a jsonrpc event with a notifications/progress message fires on an open
\* EventSource (the one the client holds or one an earlier initialize()
\* left open): the listener parses it and calls handleNotification
Notify(max) ==
  /\ Len(net.arrived) < max
  /\ \E c \in 1..Len(net.channels), token \in ProgressTokens :
       /\ net.channels[c] = "open"
       /\ net' = [net EXCEPT !.arrived = Append(@, token),
                             !.invoked = Dispatch(client.progressCallbacks, @, token),
                             !.lastOp = "other"]
  /\ UNCHANGED <<client, init>>
  /\ UNCHANGED <<appVars, decVars>>

HandleNotification == Notify(1)

DisconnectKeepsCallbacks ==
  /\ client' = [client EXCEPT !.sseConnection = NoChannel, !.session = NoSession]
  /\ net' = [net EXCEPT !.channels =
                [c \in 1..Len(@) |-> IF c = client.sseConnection THEN "closed" ELSE @[c]],
                        !.handshake = NoSession, !.lastOp = "disconnect"]
  /\ UNCHANGED init
  /\ UNCHANGED <<appVars, decVars>>

\* disconnect(): close and drop the EventSource if there is one, drop the
\* session, clear the callbacks; an initialize() in progress goes on
Disconnect ==
  /\ client' = [client EXCEPT !.sseConnection = NoChannel, !.session = NoSession,
                              !.progressCallbacks = NoCallbacks]
  /\ net' = [net EXCEPT !.channels =
                [c \in 1..Len(@) |-> IF c = client.sseConnection THEN "closed" ELSE @[c]],
                        !.handshake = NoSession, !.lastOp = "disconnect"]
  /\ UNCHANGED init
  /\ UNCHANGED <<appVars, decVars>>

McpNext ==
  \/ Initialize
  \/ InitializeResponse
  \/ ChannelOpen
  \/ ChannelError
  \/ SSETimeout
  \/ ToolsResponse
  \/ CallRequest
  \/ RegisterProgressCallback
  \/ UnregisterProgressCallback
  \/ HandleNotification
  \/ Disconnect

McpSpec == McpInit /\ [][McpNext]_vars

\* ------------------------------- specification: the notification channel

NotifyNext ==
  \/ Initialize
  \/ InitializeResponse
  \/ ChannelOpen
  \/ Register(Callbacks)
  \/ UnregisterProgressCallback
  \/ Notify(MaxNotifications)
  \/ Disconnect

NotifySpec == McpInit /\ [][NotifyNext]_vars

\* ------------------------------------------------------------------ claims

IsPrefix(a, b) == Len(a) <= Len(b) /\ SubSeq(b, 1, Len(a)) = a

RoundIds == 1..MaxRounds

\* the tool calls the first completion call of a round delivered
DeliveredCalls(rd) ==
  LET es == SelectSeq(rd.first.log, LAMBDA e : e.type = "toolCall")
  IN [k \in 1..Len(es) |-> es[k].toolCall]

\* the continuation request of the round has been issued
Continued(rd) == rd.request # rd.messages

Ended(rd) == rd.pc \in {"done", "failed"}

Running(rd) == {k \in 1..Len(rd.execs) : rd.execs[k].state = "running"}

\* the tool messages round r put in the store
ToolMessagesInThread(r) ==
  SelectSeq(threads[rounds[r].thread].messages,
            LAMBDA m : m.role = "tool" /\ m.id[2] = Digit(Now(r) + 1))

\* C1: once a round has issued its continuation request, the request
\* carries, after the round's earlier messages and the assistant tool-call
\* message, exactly one tool message per tool call the first call
\* delivered, in order and with that call's id, and the thread in the store
\* holds the same tool messages; whether the tools settled or not.
C1_OneToolMessagePerCall ==
  \A r \in 1..Len(rounds) :
    Continued(rounds[r]) =>
      LET rd == rounds[r]
          calls == DeliveredCalls(rd)
          tail == SubSeq(rd.request, Len(rd.messages) + 2, Len(rd.request))
      IN /\ Len(calls) >= 1
         /\ Len(tail) = Len(calls)
         /\ \A k \in 1..Len(tail) :
              tail[k].role = "tool" /\ tail[k].toolCallId = calls[k].id
         /\ ToolMessagesInThread(r) = tail

\* C1 witness: a continuation request was issued for two tool calls after
\* the wait ended on its ceiling with one tool settled and one not.
C1_Witness ==
  \E r \in 1..Len(rounds) :
    /\ Continued(rounds[r])
    /\ rounds[r].timedOut
    /\ Len(DeliveredCalls(rounds[r])) = 2
    /\ Cardinality(Running(rounds[r])) = 1

\* C2: the step that issues the continuation request of a round is taken
\* only when every tool the round started has settled or the wait has
\* made maxAttempts polls.
C2_JoinNotRace ==
  [][\A r \in 1..Len(rounds) :
       (rounds[r].pc = "waiting" /\ rounds'[r].pc = "final") =>
         (Running(rounds[r]) = {} \/ rounds[r].attempts = maxAttempts)]_vars

\* C2 witness: a round is still waiting, below the ceiling, although the
\* first of its two tools has settled.
C2_Witness ==
  \E r \in 1..Len(rounds) :
    /\ rounds[r].pc = "waiting"
    /\ rounds[r].attempts > 0 /\ rounds[r].attempts < maxAttempts
    /\ Len(rounds[r].execs) = 2
    /\ rounds[r].execs[1].state = "settled"
    /\ rounds[r].execs[2].state = "running"

InFlight == {r \in 1..Len(rounds) : ~Ended(rounds[r])}

\* C4: at most one round is in flight at any time (so no two rounds of one
\* thread interleave their messages).
C4_OneRoundInFlight == Cardinality(InFlight) <= 1

\* C4 witness: a second round is executing tools on the thread on which a
\* first round ran and ended.
C4_Witness ==
  /\ Len(rounds) = 2
  /\ Ended(rounds[1])
  /\ rounds[2].pc = "waiting"
  /\ rounds[2].thread = rounds[1].thread
  /\ currentThread.id = rounds[1].thread

\* C5 (the claim as stated; the code violates it): when a round whose
\* tools all settled before the continuation is done, the association map
\* has an entry for the round's final message id that holds a result for
\* every tool call of the round.
C5_ResultsAssociated ==
  \A r \in 1..Len(rounds) :
    (rounds[r].pc = "done" /\ Continued(rounds[r]) /\ ~rounds[r].timedOut) =>
      /\ rounds[r].aiMessageId \in DOMAIN messageToolResults
      /\ \A k \in 1..Len(rounds[r].executedTools) :
           \E j \in 1..Len(messageToolResults[rounds[r].aiMessageId]) :
             LET st == messageToolResults[rounds[r].aiMessageId][j]
             IN st.round = r /\ st.toolCallId = rounds[r].executedTools[k].toolCall.id

\* C6 (the claim as stated; the code violates it): every tool result in
\* the association map sits under the final message id of the round whose
\* tool produced it.
C6_NoLeakAcrossRounds ==
  \A id \in DOMAIN messageToolResults :
    \A j \in 1..Len(messageToolResults[id]) :
      id = AiMessageId(messageToolResults[id][j].round)

\* C7: a round raises one error toast when it fails and none otherwise;
\* the step in which a completion call fails appends no message, neither
\* to the store nor to the working copy; and no step removes or reorders
\* messages of a thread in the store.
C7_FailureCommitsNothing ==
  /\ [](\A r \in 1..Len(rounds) :
          rounds[r].toasts = IF rounds[r].pc = "failed" THEN 1 ELSE 0)
  /\ [][/\ \A r \in 1..Len(rounds) :
             (rounds[r].pc # "failed" /\ rounds'[r].pc = "failed") =>
               (threads' = threads /\ currentThread' = currentThread)
        /\ \A t \in ThreadIds : IsPrefix(threads[t].messages, threads'[t].messages)]_vars

\* C7 witness: a round failed in its continuation call, after content had
\* streamed, with the tool messages in the store.
C7_Witness ==
  \E r \in 1..Len(rounds) :
    /\ rounds[r].pc = "failed"
    /\ Continued(rounds[r])
    /\ rounds[r].finalResponse # <<>>
    /\ ToolMessagesInThread(r) # <<>>

Terminals(log) == {k \in 1..Len(log) : log[k].type \in {"complete", "error"}}

WholeLog(t) ==
  LET d1 == ReadChunk(NewDecoder, t, TRUE, 0)
  IN IF d1.ended THEN d1.log ELSE ReadDone(d1).log

\* C9: for every stream of well-formed records and every way of cutting it
\* into chunks, once the invocation has ended the callbacks it made (content
\* chunks, tool calls, completion, in order) are those made when the whole
\* stream arrives as one chunk.
C9_ChunkingInvariant ==
  (dec.ended /\ dec.log[Len(dec.log)].type = "complete") => dec.log = WholeLog(text)

\* C9 witness: a stream cut inside a line has ended after delivering a
\* content chunk and a tool call.
C9_Witness ==
  /\ dec.ended
  /\ dec.log[Len(dec.log)].type = "complete"
  /\ splitInside
  /\ \E i, j \in 1..Len(dec.log) :
       dec.log[i].type = "chunk" /\ dec.log[j].type = "toolCall"

\* the call index a delivered tool call was accumulated under
IndexOfCall(tc) ==
  IF tc.id[1] = "tool-"
  THEN CHOOSE n \in 0..9 : Digit(n) = tc.id[4]
  ELSE CHOOSE n \in 0..9 : tc.id = <<"call_", Digit(n)>>

\* the arguments fragments the records sent carry for one call index, in
\* the order sent
RECURSIVE FragmentsFor(_, _)
FragmentsFor(toks, i) ==
  IF toks = <<>> THEN <<>>
  ELSE LET tds == Payloads[Head(toks)][1].delta.tool_calls
           mine == IF tds # <<>> /\ tds[1].index = i /\ tds[1].arguments # UNDEFINED
                   THEN tds[1].arguments ELSE <<>>
       IN mine \o FragmentsFor(Tail(toks), i)

\* C10: the arguments of every delivered tool call are the concatenation,
\* in arrival order, of the arguments fragments received for its call
\* index, and of those only.
C10_ArgumentsConcatenated ==
  \A k \in 1..Len(dec.log) :
    dec.log[k].type = "toolCall" =>
      dec.log[k].toolCall.arguments = FragmentsFor(sent, IndexOfCall(dec.log[k].toolCall))

\* C10 witness: two tool calls were delivered from interleaved fragments,
\* one of them assembled from two fragments.
C10_Witness ==
  \E i, j \in 1..Len(dec.log) :
    /\ i # j
    /\ dec.log[i].type = "toolCall" /\ dec.log[j].type = "toolCall"
    /\ dec.log[i].toolCall.arguments = ArgsFull
    /\ \E a, b, c \in 1..Len(sent) :
         a < b /\ b < c /\ sent[a] = "T0" /\ sent[b] = "T1" /\ sent[c] = "A0"

\* the stream has carried the record with finish_reason 'tool_calls'
FinishSeen == \E k \in 1..Len(sent) : sent[k] = "F"

\* the accumulated entry has no name, or arguments JSON.parse rejects
Undecodable(e) == ~Truthy(e.name) \/ ~JSONValidArgs(e.arguments)

\* C11 (the claim as stated; the code violates it): once the finish reason
\* tool_calls has been read, every accumulated call without a name or with
\* unparsable arguments is left out of the delivered calls and an error is
\* reported to the caller.
C11_DecodeErrorsReported ==
  FinishSeen =>
    \A k \in 1..Len(dec.acc) :
      Undecodable(dec.acc[k]) =>
        /\ \A j \in 1..Len(dec.log) :
             dec.log[j].type = "toolCall" =>
               IndexOfCall(dec.log[j].toolCall) # dec.acc[k].index
        /\ \E j \in 1..Len(dec.log) : dec.log[j].type = "error"

\* C12 (the claim as stated; the code violates it): once the first call of
\* a round has delivered its tool calls, every execution the round started
\* began, and every result reported at once was reported, when all the tool
\* calls of the turn had been delivered.
C12_DeliveredTogether ==
  \A r \in 1..Len(rounds) :
    rounds[r].first.ended =>
      \A k \in 1..Len(rounds[r].execs) :
        rounds[r].execs[k].delivered = Len(DeliveredCalls(rounds[r]))

\* the position in net.requests of the latest initialize request
LastInitialize ==
  LET is == {k \in 1..Len(net.requests) : net.requests[k].method = "initialize"}
  IN IF is = {} THEN 0 ELSE CHOOSE k \in is : \A j \in is : j <= k

\* C13: when the initialize request came back with a result but without
\* the session id header or without the protocol version header,
\* initialize() has failed with 'Missing session headers', it created no
\* EventSource and sent no tools/list request; if it was the client's first
\* initialize(), the session is null, no EventSource exists and no
\* tools/list request was ever sent.
C13_MissingHeadersFail ==
  (/\ init.response.ok
   /\ init.response.result
   /\ (init.response.sessionId = NULL \/ init.response.protocolVersion = NULL)) =>
    /\ init.pc = "failed"
    /\ init.error = "headers"
    /\ init.channel = NoChannel
    /\ \A k \in 1..Len(net.requests) :
         k > LastInitialize => net.requests[k].method # "tools/list"
    /\ init.n = 1 =>
         /\ client.session = NoSession
         /\ client.sseConnection = NoChannel
         /\ net.channels = <<>>
         /\ client.tools = <<>>
         /\ \A k \in 1..Len(net.requests) : net.requests[k].method # "tools/list"

C13_Witness ==
  /\ init.pc = "failed"
  /\ init.error = "headers"
  /\ init.n = 1
  /\ init.response.sessionId = NULL
  /\ Truthy(init.response.protocolVersion)
  /\ client.session = NoSession

\* C14: when the initialize request came back with a result and both
\* session headers, initialize() does not fail because the EventSource did
\* not open: it goes on to tool discovery and returns the session.
C14_ChannelFailureNotFatal ==
  (/\ init.response.ok
   /\ init.response.result
   /\ Truthy(init.response.sessionId)
   /\ Truthy(init.response.protocolVersion)) =>
    ~(init.pc = "failed" /\ init.error = "sse")

\* C15: a step that ends with disconnect() having run last leaves the
\* session null, this.sseConnection null, the progress-callback registry
\* empty and the EventSource the client held closed, whatever the state
\* disconnect() was called in; the three fields are never cleared in part.
C15_DisconnectClearsAll ==
  [][net'.lastOp = "disconnect" =>
       /\ client'.session = NoSession
       /\ client'.sseConnection = NoChannel
       /\ client'.progressCallbacks = NoCallbacks
       /\ client.sseConnection # NoChannel =>
            net'.channels[client.sseConnection] = "closed"]_vars

\* disconnect() ran last on a client that had completed initialize(), had
\* an EventSource and had had a progress callback called
C15_Witness ==
  /\ net.lastOp = "disconnect"
  /\ init.pc = "done"
  /\ net.invoked # <<>>
  /\ \E c \in 1..Len(net.channels) : net.channels[c] = "closed"
  /\ client.session = NoSession
  /\ client.progressCallbacks = NoCallbacks

\* C16: every request other than initialize that was sent while a
\* handshake was in force carries that handshake's session id and protocol
\* version, and every request carries 'Bearer ' followed by the API key
\* if an API key is configured and no Authorization header otherwise.
C16_RequestsCarrySession ==
  \A k \in 1..Len(net.requests) :
    LET req == net.requests[k]
    IN /\ (req.method # "initialize" /\ req.expect # NoSession) =>
            /\ req.sessionId = req.expect.sessionId
            /\ req.protocolVersion = req.expect.protocolVersion
       /\ client.apiKey # NULL => req.authorization = <<"Bearer ">> \o client.apiKey
       /\ client.apiKey = NULL => req.authorization = UNDEFINED

\* a tools/list request and a later request of another method were sent
\* under a handshake by a client with an API key
C16_Witness ==
  /\ client.apiKey = ApiKey
  /\ \E j, k \in 1..Len(net.requests) :
       /\ j < k
       /\ net.requests[j].method = "tools/list"
       /\ net.requests[k].method \in CallMethods
       /\ net.requests[k].expect # NoSession
       /\ net.requests[k].sessionId = <<"session-", "1">>
       /\ net.requests[k].authorization # UNDEFINED

\* the tool messages of round r's continuation request that answer call id
AnswersTo(r, id) ==
  LET rd == rounds[r]
      tail == SubSeq(rd.request, Len(rd.messages) + 2, Len(rd.request))
  IN {tail[k] : k \in {j \in 1..Len(tail) : tail[j].toolCallId = id}}

\* C17: once a round has issued its continuation request, every tool call
\* for which executeMCPTool reported an error has a tool message with its
\* id whose content starts with "Error executing " followed by the tool's
\* name.
C17_ErrorsBecomeErrorMessages ==
  \A r \in 1..Len(rounds) :
    Continued(rounds[r]) =>
      \A k \in 1..Len(rounds[r].execs) :
        LET tc == rounds[r].execs[k].toolCall
        IN FailsAtOnce(tc) =>
             /\ AnswersTo(r, tc.id) # {}
             /\ \A m \in AnswersTo(r, tc.id) :
                  IsPrefix(<<"Error executing ">> \o tc.name, m.content)

\* the message sequences a thread can be seen in: the stored threads and
\* the working copy of the open thread
ThreadStates == {threads[t].messages : t \in ThreadIds} \cup {currentThread.messages}

\* C18: in every thread, stored or open, each tool message carries the id
\* of a tool call listed in an assistant message earlier in the thread, and
\* every assistant message that lists tool calls has empty content and is
\* filtered out of visibleMessages.
C18_ToolMessagesReferToCalls ==
  \A ms \in ThreadStates :
    \A i \in 1..Len(ms) :
      /\ ms[i].role = "tool" =>
           \E j \in 1..(i - 1) :
             /\ ms[j].role = "assistant"
             /\ \E c \in 1..Len(ms[j].toolCalls) : ms[j].toolCalls[c].id = ms[i].toolCallId
      /\ (ms[i].role = "assistant" /\ ms[i].toolCalls # <<>>) =>
           /\ ms[i].content = <<>>
           /\ ~Visible(ms[i])

\* the open thread was reloaded from the store after a round with two tool
\* calls: it holds the assistant tool-call message and both tool messages
C18_Witness ==
  \E i \in 1..Len(currentThread.messages) :
    /\ currentThread.messages[i].role = "assistant"
    /\ Len(currentThread.messages[i].toolCalls) = 2
    /\ Len(currentThread.messages) >= i + 2
    /\ currentThread.messages[i + 1].role = "tool"
    /\ currentThread.messages[i + 2].role = "tool"
    /\ currentThread.messages[i + 2].toolCallId = <<"call_", "1">>

\* C19: while a round's first completion request is being answered, the
\* message list it sent is the whole message sequence of its thread in the
\* store, in order: for a later round this includes the assistant
\* tool-call messages and the tool messages of earlier rounds. Stated for
\* the runs in which the user never changes the open thread.
C19_RequestIsWholeThread ==
  \A r \in 1..Len(rounds) :
    (switches = 0 /\ rounds[r].pc = "first") =>
      rounds[r].request = threads[rounds[r].thread].messages

\* C20: in a round all of whose tools return a result, the result stored
\* on a call's record is the result of that call, also when two calls of
\* the same tool settle in the opposite order to their dispatch.
C20_ResultOnOwnRecord ==
  \A r \in 1..Len(rounds) :
    (\A e \in 1..Len(rounds[r].execs) : ~FailsAtOnce(rounds[r].execs[e].toolCall)) =>
      \A k \in 1..Len(rounds[r].executedTools) :
        LET tool == rounds[r].executedTools[k]
        IN tool.result # NULL => tool.result = ToolResultOf(tool.toolCall)

\* Array.prototype.join('\n')
RECURSIVE Join(_)
Join(lines) ==
  IF lines = <<>> THEN <<>>
  ELSE IF Len(lines) = 1 THEN lines[1]
  ELSE Head(lines) \o <<NL>> \o Join(Tail(lines))

\* a data line whose payload is empty or is not JSON
Malformed(line) ==
  /\ StartsWith(line, DataPrefix)
  /\ Trim(Slice(line, Len(DataPrefix))) # DoneMarker
  /\ ~JSONParse(Trim(Slice(line, Len(DataPrefix)))).ok

\* the stream without its malformed records
WithoutMalformed(t) == Join(SelectSeq(SplitLines(t), LAMBDA line : ~Malformed(line)))

\* C21: an invocation that ended with onComplete made the callbacks it
\* makes for the same stream with the empty and the unparsable data records
\* taken out, and an invocation ends with onError only through a failure of
\* the transport, never by reading records.
C21_MalformedRecordsDropped ==
  /\ []((dec.ended /\ dec.log[Len(dec.log)].type = "complete") =>
          dec.log = WholeLog(WithoutMalformed(text)))
  /\ [][(~dec.ended /\ dec'.ended /\ dec'.log[Len(dec'.log)].type = "error") =>
          (wire' = wire /\ dec'.log = Append(dec.log, ErrorEvent))]_vars

\* a stream with an unparsable or an empty record between two
\* content records has ended with both contents delivered
C21_Witness ==
  /\ \E bad \in {BadRecord, EmptyRecord} :
       text = DataRecord("C") \o bad \o DataRecord("C")
  /\ dec.ended
  /\ Len(dec.log) = 3
  /\ dec.log[1].type = "chunk"
  /\ dec.log[2].type = "chunk"
  /\ dec.log[3].type = "complete"

\* the positions of the synthesized system instructions in a message list
SystemInstructions(ms) ==
  {i \in 1..Len(ms) : ms[i].role = "system" /\ ms[i].content = SystemText}

UserMessages(ms) == {i \in 1..Len(ms) : ms[i].role = "user"}

\* C22: a stored thread that has a user message has exactly one
\* synthesized system instruction, placed right before its first user
\* message, and a thread without a user message has none; the message list
\* of every completion request of a round holds the round's user message.
C22_SystemInstructionOnce ==
  /\ \A t \in ThreadIds :
       LET ms == threads[t].messages
       IN /\ Cardinality(SystemInstructions(ms)) <= 1
          /\ UserMessages(ms) = {} => SystemInstructions(ms) = {}
          /\ UserMessages(ms) # {} =>
               SystemInstructions(ms) = {Min(UserMessages(ms)) - 1}
  /\ \A r \in 1..Len(rounds) :
       \E i \in UserMessages(rounds[r].request) :
         rounds[r].request[i].id = <<Digit(Now(r))>>

\* the assistant tool-call messages round r put in the store
ToolCallMessagesInThread(r) ==
  SelectSeq(threads[rounds[r].thread].messages,
            LAMBDA m : m.role = "assistant" /\ m.toolCalls # <<>> /\ m.id = rounds[r].aiMessageId)

\* C23: a round whose continuation call read a 'tool_calls' finish reason
\* does not reach its end before the tool calls of the continuation were
\* executed and a second assistant tool-call message was stored.
C23_ContinuationHandledLikeFirst ==
  \A r \in 1..Len(rounds) :
    (rounds[r].finalFinish /\ rounds[r].pc = "done") =>
      /\ Len(rounds[r].execs) > Len(DeliveredCalls(rounds[r]))
      /\ Len(ToolCallMessagesInThread(r)) >= 2

\* C24: an entry of the association map, once written, is never replaced,
\* extended or removed.
C24_AssociationWriteOnce ==
  [][\A id \in DOMAIN messageToolResults :
       /\ id \in DOMAIN messageToolResults'
       /\ messageToolResults'[id] = messageToolResults[id]]_vars

\* two entries have been written, by the second and by the third turn
C24_Witness ==
  /\ Cardinality(DOMAIN messageToolResults) = 2
  /\ AiMessageId(2) \in DOMAIN messageToolResults
  /\ AiMessageId(3) \in DOMAIN messageToolResults

\* C25: the tool calls an invocation has delivered are in increasing order
\* of call index, whatever the order in which the first fragments of the
\* indexes arrived.
C25_DeliveredInIndexOrder ==
  \A i, j \in 1..Len(dec.log) :
    (i < j /\ dec.log[i].type = "toolCall" /\ dec.log[j].type = "toolCall") =>
      IndexOfCall(dec.log[i].toolCall) < IndexOfCall(dec.log[j].toolCall)

\* the ids the records sent supply for one call index, in the order sent
RECURSIVE IdsFor(_, _)
IdsFor(toks, i) ==
  IF toks = <<>> THEN <<>>
  ELSE LET tds == Payloads[Head(toks)][1].delta.tool_calls
           mine == IF tds # <<>> /\ tds[1].index = i /\ tds[1].id # UNDEFINED
                   THEN <<tds[1].id>> ELSE <<>>
       IN mine \o IdsFor(Tail(toks), i)

\* C26: a delivered tool call carries the id the stream supplied for its
\* call index (the latest one), also when the first fragment for that
\* index carried no id.
C26_IdTakenFromStream ==
  \A k \in 1..Len(dec.log) :
    dec.log[k].type = "toolCall" =>
      LET ids == IdsFor(sent, IndexOfCall(dec.log[k].toolCall))
      IN ids # <<>> => dec.log[k].toolCall.id = ids[Len(ids)]

\* round r's assistant messages without tool calls in the store
AnswersInThread(r) ==
  SelectSeq(threads[rounds[r].thread].messages,
            LAMBDA m : m.role = "assistant" /\ m.toolCalls = <<>> /\ m.id = rounds[r].aiMessageId)

\* C27: a round whose first call read a 'tool_calls' finish reason does
\* not end with that call's accumulated text stored as the answer: if it is
\* done without a continuation request, it stored no answer.
C27_NoAnswerAfterToolCallsFinish ==
  \A r \in 1..Len(rounds) :
    (rounds[r].firstFinish /\ rounds[r].pc = "done" /\ ~Continued(rounds[r])) =>
      AnswersInThread(r) = <<>>

\* C28: in a continuation request issued after every tool had reported,
\* the tool message of a call that succeeded holds the JSON serialization
\* of that call's result; and a tool message reads "No result available"
\* only in a request issued because the wait ceiling was hit.
C28_ToolMessageContent ==
  \A r \in 1..Len(rounds) :
    Continued(rounds[r]) =>
      \A k \in 1..Len(DeliveredCalls(rounds[r])) :
        LET tc == DeliveredCalls(rounds[r])[k]
        IN \A m \in AnswersTo(r, tc.id) :
             /\ (~rounds[r].timedOut /\ ~FailsAtOnce(tc)) =>
                  m.content = JSONStringify(ToolResultOf(tc))
             /\ m.content = <<"No result available">> => rounds[r].timedOut

\* the executions of a round that have reported
Reported(rd) == {k \in 1..Len(rd.execs) : rd.execs[k].state = "settled"}

C30_DoneAttachesUnassociated ==
  [][\A r \in 1..Len(rounds) :
       (rounds[r].pc # "done" /\ rounds'[r].pc = "done") =>
         /\ currentSessionToolResults' = <<>>
         /\ currentSessionToolResults # <<>> =>
              /\ rounds[r].aiMessageId \in DOMAIN messageToolResults'
              /\ messageToolResults'[rounds[r].aiMessageId] = currentSessionToolResults]_vars

\* a is b with some elements left out, the order kept
RECURSIVE IsSubsequence(_, _)
IsSubsequence(a, b) ==
  IF a = <<>> THEN TRUE
  ELSE IF b = <<>> THEN FALSE
  ELSE IF Head(a) = Head(b) THEN IsSubsequence(Tail(a), Tail(b))
  ELSE IsSubsequence(a, Tail(b))

\* C31: a step in which a progress notification for token T arrives calls
\* the callback the registry holds for T at that moment, once, and calls
\* nothing if the registry holds none for T (never registered, unregistered,
\* or cleared by disconnect()); no other step calls a callback; and the
\* calls made are, in order, for tokens in the order their notifications
\* arrived.
C31_NotificationDispatch ==
  /\ [][IF net'.arrived # net.arrived
        THEN LET T == net'.arrived[Len(net'.arrived)]
                 callback == client.progressCallbacks[T]
             IN /\ net'.arrived = Append(net.arrived, T)
                /\ net'.invoked =
                     IF callback # NoCallback
                     THEN Append(net.invoked, [progressToken |-> T, callback |-> callback])
                     ELSE net.invoked
        ELSE net'.invoked = net.invoked]_vars
  /\ [](IsSubsequence([k \in 1..Len(net.invoked) |-> net.invoked[k].progressToken],
                      net.arrived))

\* two notifications for t1 have arrived: the first called g, which was
\* registered for t1 in place of f; the second, after t1 was unregistered,
\* called nothing
C31_Witness ==
  /\ net.arrived = <<"t1", "t1">>
  /\ net.invoked = <<[progressToken |-> "t1", callback |-> "g"]>>
  /\ client.progressCallbacks["t1"] = NoCallback
  /\ client.progressCallbacks["t2"] = "f"

\* sendMessageStream run alone on the chunks given
RECURSIVE Alone(_, _)
Alone(d, chunks) ==
  IF chunks = <<>> THEN d ELSE Alone(ReadChunk(d, Head(chunks), TRUE, 0), Tail(chunks))

\* C32: whatever other invocations are in flight and however their reads
\* interleave, the line buffer, the accumulator and the callbacks of an
\* invocation are those of the same invocation run alone on the chunks it
\* read: no fragment another invocation received shows in its tool calls.
C32_InvocationsIsolated ==
  \A i \in 1..Len(dec) : dec[i] = Alone(NewDecoder, sent[i])

\* two invocations in flight: the first read the head of a tool call and
\* the finish reason and delivered the call with the head only; the second
\* read the tail of the arguments and the finish reason and delivered nothing
C32_Witness ==
  /\ Len(dec) = 2
  /\ sent[1] = <<DataRecord("T0"), DataRecord("F")>>
  /\ sent[2] = <<DataRecord("A0"), DataRecord("F")>>
  /\ dec[1].log = <<ToolCallEvent([id |-> <<"call_", "0">>, name |-> <<"web_search">>,
                                  arguments |-> ArgsHead])>>
  /\ dec[2].log = <<>>

\* C33 (the claim as stated; the code violates it): while the client holds
\* a session no step gives it another one (the session changes only from
\* none to one, and back to none by disconnect()), and at no time are two
\* notification channels of the client connecting or open.
C33_SessionCreatedOnce ==
  /\ [][(client.session # NoSession /\ client'.session # NoSession) =>
          client'.session = client.session]_vars
  /\ [](Cardinality({c \in 1..Len(net.channels) :
                       net.channels[c] \in {"connecting", "open"}}) <= 1)

\* the choices of the payloads of the well-formed data records of a stream
ChoicesIn(t) ==
  UNION {LET parsed == JSONParse(Trim(Slice(line, Len(DataPrefix))))
         IN IF StartsWith(line, DataPrefix) /\ parsed.ok
            THEN {parsed.choices[c] : c \in 1..Len(parsed.choices)} ELSE {}
         : line \in {SplitLines(t)[k] : k \in 1..Len(SplitLines(t))}}

\* C34 (the claim as stated; the code violates it): when a stream without
\* an end marker has been read to its end, the content of every choice of
\* every well-formed record has been passed to onChunk and every tool-call
\* fragment of every choice has an entry in the accumulator.
C34_EveryChoiceEmitted ==
  (/\ dec.ended
   /\ dec.log # <<>>
   /\ dec.log[Len(dec.log)] = CompleteEvent
   /\ \A k \in 1..Len(SplitLines(text)) : SplitLines(text)[k] # DataPrefix \o DoneMarker) =>
    \A choice \in ChoicesIn(text) :
      /\ Truthy(choice.delta.content) =>
           \E k \in 1..Len(dec.log) : dec.log[k] = ChunkEvent(choice.delta.content)
      /\ \A j \in 1..Len(choice.delta.tool_calls) :
           AccHas(dec.acc, choice.delta.tool_calls[j].index)

\* C35 (the claim as stated; the code violates it): whenever the latest
\* initialize() has ended with an error, the client holds no session and no
\* EventSource, and no EventSource it created is connecting or open.
C35_FailedInitializeDisconnected ==
  init.pc = "failed" =>
    /\ client.session = NoSession
    /\ client.sseConnection = NoChannel
    /\ \A c \in 1..Len(net.channels) : net.channels[c] \notin {"connecting", "open"}

\* isConnected(): this.session !== null &&
\* this.sseConnection?.readyState === EventSource.OPEN
IsConnected ==
  /\ client.session # NoSession
  /\ client.sseConnection # NoChannel
  /\ net.channels[client.sseConnection] = "open"

\* C36 (the claim as stated; the code violates it): from the successful
\* return of initialize() until disconnect() is called isConnected() is
\* true, and after disconnect() it is false.
C36_ConnectedBetween ==
  /\ (init.pc = "done" /\ client.session # NoSession) => IsConnected
  /\ net.lastOp = "disconnect" => ~IsConnected

\* C37: a round has issued at most two completion requests, and it has
\* issued the second only after its first call delivered a tool call;
\* this also when the continuation's stream ends with finish reason
\* 'tool_calls'.
C37_AtMostTwoRequests ==
  \A r \in 1..Len(rounds) :
    /\ rounds[r].requests <= 2
    /\ rounds[r].requests = 2 => DeliveredCalls(rounds[r]) # <<>>

\* a round is done whose continuation streamed a tool call and the finish
\* reason 'tool_calls': it issued two requests
C37_Witness ==
  \E r \in 1..Len(rounds) :
    /\ rounds[r].pc = "done"
    /\ rounds[r].finalFinish
    /\ rounds[r].requests = 2

\* C38 (the claim as stated; the code violates it): every message of the
\* working copy of the open thread is a message of that thread in the
\* store, and a thread of the store holds no user or assistant message of a
\* round that was started on another thread.
C38_MessagesStayOnThread ==
  /\ \A k \in 1..Len(currentThread.messages) :
       \E j \in 1..Len(threads[currentThread.id].messages) :
         threads[currentThread.id].messages[j] = currentThread.messages[k]
  /\ \A t \in ThreadIds, r \in 1..Len(rounds) :
       rounds[r].thread # t =>
         \A j \in 1..Len(threads[t].messages) :
           threads[t].messages[j].id \notin {<<Digit(Now(r))>>, AiMessageId(r)}

\* C39 (the claim as stated; the code violates it): no two messages of a
\* thread in the store have the same id.
C39_MessageIdsUnique ==
  \A t \in ThreadIds :
    \A j, k \in 1..Len(threads[t].messages) :
      j # k => threads[t].messages[j].id # threads[t].messages[k].id

\* the threads of a section other than those with the id given, in order
Others(ts, threadId) == SelectSeq(ts, LAMBDA t : t.id # threadId)

\* C40: a step of addMessageToThread, updateThread or deleteThread leaves
\* the other section as it was and leaves the other threads of the
\* addressed section as they were, in their order; if the section holds no
\* thread with the id addressed, the store is as it was; addMessageToThread
\* on a thread the section holds keeps every thread at its position and
\* gives the addressed one its old messages followed by one new message;
\* updateThread keeps the number of threads.
C40_StoreFrame ==
  [][LET l == threads'.last
         s == l.section
         old == threads.stored
         new == threads'.stored
         found == {j \in 1..Len(old[s]) : old[s][j].id = l.threadId}
     IN l.op \in {"add", "update", "delete"} =>
          /\ \A o \in Sections \ {s} : new[o] = old[o]
          /\ Others(new[s], l.threadId) = Others(old[s], l.threadId)
          /\ found = {} => new = old
          /\ (l.op = "add" /\ found # {}) =>
               /\ Len(new[s]) = Len(old[s])
               /\ \A j \in found :
                    \E m \in {"a", "b"} :
                      new[s][j] = [old[s][j] EXCEPT !.messages = Append(@, m)]
          /\ l.op = "update" => Len(new[s]) = Len(old[s])]_vars

\* the latest call added a second message to thread 1 of section steam,
\* which holds another thread, while section source2 holds a thread with
\* the same id and no message
C40_Witness ==
  /\ threads.last.op = "add"
  /\ threads.last.section = "steam"
  /\ threads.last.threadId = "1"
  /\ Len(threads.stored["steam"]) = 2
  /\ \E j \in 1..2 : /\ threads.stored["steam"][j].id = "1"
                     /\ threads.stored["steam"][j].messages = <<"a", "b">>
  /\ Len(threads.stored["source2"]) = 1
  /\ threads.stored["source2"][1].id = "1"
  /\ threads.stored["source2"][1].messages = <<>>

====
